---- MODULE Spec2Model ----
(***************************************************************************)
(* IsotropicBasis3D (src/isotropic_basis_3d.py): a radial-binning basis.   *)
(* The constructor precomputes, for every voxel of an N x N x N grid, the  *)
(* index of its radial shell; evaluate_t averages a volume over the        *)
(* shells, evaluate broadcasts shell values back onto the voxels, and      *)
(* keep_isotropic copies a coefficient vector.                             *)
(*                                                                         *)
(* Numbers.  Radii are kept as exact integers: with c = i - (N-1)/2 the    *)
(* quantity 4*r^2 = sum (2i-(N-1))^2 is an integer, and rounding the       *)
(* scaled radius to the nearest integer is decided by comparing squares.   *)
(* Floating-point values are records [num, den, rnd]: the rational         *)
(* num/den (lowest terms) followed by the roundings in rnd (<<>> when the  *)
(* value is exactly representable), so that a cast to single precision is  *)
(* a real conversion and not the identity.  den = 0 stands for nan.        *)
(***************************************************************************)
EXTENDS Integers, Sequences, FiniteSets, TLC

VARIABLES phase, N, nbins, rbin, warnings, vol, call

vars == <<phase, N, nbins, rbin, warnings, vol, call>>

\* Largest grid side and largest explicit bin count the constructor is given.
MaxN == 4
MaxBins == 5

\* ------------------------------------------------------------------------
\* Integer helpers
\* ------------------------------------------------------------------------
Abs(x) == IF x < 0 THEN -x ELSE x

Max2(a, b) == IF a >= b THEN a ELSE b

Min2(a, b) == IF a <= b THEN a ELSE b

RECURSIVE Gcd(_, _)
Gcd(a, b) == IF b = 0 THEN a ELSE Gcd(b, a % b)

RECURSIVE BitLen(_)
BitLen(x) == IF x = 0 THEN 0 ELSE 1 + BitLen(x \div 2)

RECURSIVE IsPow2(_)
IsPow2(x) == IF x = 1 THEN TRUE ELSE IF x % 2 = 1 THEN FALSE ELSE IsPow2(x \div 2)

\* ------------------------------------------------------------------------
\* Floating-point values
\* ------------------------------------------------------------------------
F(n) == [num |-> n, den |-> 1, rnd |-> <<>>]

Nan == [num |-> 0, den |-> 0, rnd |-> <<>>]

IsNan(v) == v.den = 0

\* The integer n rounded to p significant bits, ties to even.
RoundInt(n, p) ==
    LET a == Abs(n)
        L == BitLen(a)
    IN  IF L <= p THEN n
        ELSE LET q  == 2 ^ (L - p)
                 lo == (a \div q) * q
                 rm == a - lo
                 up == \/ 2 * rm > q
                       \/ 2 * rm = q /\ (lo \div q) % 2 = 1
                 r  == IF up THEN lo + q ELSE lo
             IN  IF n < 0 THEN -r ELSE r

\* astype(np.float64) / astype(np.float32): v rounded to a p-bit significand.
Round(v, p) ==
    IF IsNan(v) THEN v
    ELSE IF v.rnd = <<>>
    THEN IF v.den = 1 THEN F(RoundInt(v.num, p))
         ELSE IF IsPow2(v.den) /\ BitLen(Abs(v.num)) <= p THEN v
         ELSE [v EXCEPT !.rnd = <<p>>]
    ELSE IF p >= v.rnd[Len(v.rnd)] THEN v
         ELSE [v EXCEPT !.rnd = Append(@, p)]

Float64(v) == Round(v, 53)

Float32(v) == Round(v, 24)

\* The double-precision quotient of an integer-valued sum s by a count c.
FDiv(s, c) ==
    IF c = 0 THEN Nan
    ELSE LET g == Gcd(Abs(s.num), c)
         IN  Float64([num |-> s.num \div g, den |-> c \div g, rnd |-> <<>>])

\* The double-precision sum of two integer-valued doubles.
FAdd(a, b) == Float64(F(a.num + b.num))

\* ------------------------------------------------------------------------
\* _precompute_radius_bins
\* ------------------------------------------------------------------------
Voxels(n) == 0 .. (n * n * n - 1)

\* Index of voxel v (C order) along axis a = 0, 1, 2.
AxisIndex(n, v, a) ==
    IF a = 0 THEN v \div (n * n) ELSE IF a = 1 THEN (v \div n) % n ELSE v % n

\* Twice the centred coordinate: 2 * (i - (N-1)/2).
\* Faulty variant: centred on N/2 instead of (N-1)/2.
Coords2Mut(n, i) == 2 * i - n

Coords2(n, i) == 2 * i - (n - 1)

\* 4 * r^2 of voxel v.
R2(n, v) ==
    LET x == Coords2(n, AxisIndex(n, v, 0))
        y == Coords2(n, AxisIndex(n, v, 1))
        z == Coords2(n, AxisIndex(n, v, 2))
    IN  x * x + y * y + z * z

\* 4 * rmax^2, the largest 4 * r^2 on the grid.
\* Faulty variant: rmax taken from the doubled coordinates.
Rmax2Mut(n) == 4 * (CHOOSE d \in {R2(n, v) : v \in Voxels(n)} :
                        \A v \in Voxels(n) : R2(n, v) <= d)

Rmax2(n) == CHOOSE d \in {R2(n, v) : v \in Voxels(n)} :
                \A v \in Voxels(n) : R2(n, v) <= d

\* np.rint((r / rmax) * m) for 4r^2 = d2, 4rmax^2 = dmax > 0: the integer
\* nearest to sqrt(d2/dmax) * m, ties to even.  An exact tie needs N odd
\* with (N-1)/2 even; up to N = 8 that is N = 5 alone, where r/rmax = 1/2,
\* which doubles compute exactly, so the double-precision product rounds
\* like the exact value on every grid explored here.
Rint(d2, dmax, m) ==
    LET A == 4 * d2 * m * m
        q == CHOOSE k \in 0 .. Abs(m) :
                /\ \/ k = 0
                   \/ (2 * k - 1) * (2 * k - 1) * dmax < A
                   \/ (2 * k - 1) * (2 * k - 1) * dmax = A /\ k % 2 = 0
                /\ \/ (2 * k + 1) * (2 * k + 1) * dmax > A
                   \/ (2 * k + 1) * (2 * k + 1) * dmax = A /\ k % 2 = 0
    IN  IF m < 0 THEN -q ELSE q

\* np.clip(x, lo, hi) = minimum(maximum(x, lo), hi).
\* Faulty variant: the clamp left out.
ClipMut(x, lo, hi) == x

Clip(x, lo, hi) == Min2(Max2(x, lo), hi)

\* nan.astype(np.int32) is undefined in C: the casts produced by the usual
\* targets (INT_MIN, 0, INT_MAX).
NanToInt32 == {-(2 ^ 30) - 2 ^ 30, 0, 2 ^ 30 + (2 ^ 30 - 1)}

\* The warnings numpy raises while the grid is built.
PrecomputeWarnings(n) ==
    IF Rmax2(n) = 0
    THEN {"invalid value encountered in divide", "invalid value encountered in cast"}
    ELSE {}

\* The grids _precompute_radius_bins can return for side n > 0 and nb bins,
\* flattened in C order (entry v + 1 is voxel v).
PrecomputeRadiusBins(n, nb) ==
    LET dmax == Rmax2(n)
    IN  IF dmax = 0
        THEN {[v \in 1 .. n * n * n |-> Clip(c, 0, nb - 1)] : c \in NanToInt32}
        ELSE {[v \in 1 .. n * n * n |->
                  Clip(Rint(R2(n, v - 1), dmax, nb - 1), 0, nb - 1)]}

\* ------------------------------------------------------------------------
\* Arrays: a shape and the entries along axis 0 in C order.  A volume holds
\* its N^3 (integer-valued) voxels flattened; a coefficient array of more
\* than one dimension holds one row per entry of axis 0.
\* ------------------------------------------------------------------------
NoArray == [shape |-> <<-1>>, data |-> <<>>]

NoResult == [status |-> "none", value |-> NoArray]

Ok(a) == [status |-> "ok", value |-> a]

Raise(e) == [status |-> e, value |-> NoArray]

RECURSIVE Prod(_)
Prod(s) == IF s = <<>> THEN 1 ELSE s[1] * Prod(Tail(s))

\* ------------------------------------------------------------------------
\* evaluate_t
\* ------------------------------------------------------------------------
\* np.bincount(bins, weights=w) with len slots, over entries lo .. hi.  The
\* code accumulates left to right; the weights here are integer-valued
\* doubles whose partial sums are exact, so the range is summed by halves.
\* Faulty variant: the weights left out (every voxel counts 1).
RECURSIVE BincountWeightsMut(_, _, _, _, _)
BincountWeightsMut(bins, w, len, lo, hi) ==
    IF lo > hi THEN [b \in 1 .. len |-> F(0)]
    ELSE IF lo = hi
    THEN [b \in 1 .. len |-> IF b = bins[lo] + 1 THEN F(1) ELSE F(0)]
    ELSE LET mid == (lo + hi) \div 2
             l   == BincountWeightsMut(bins, w, len, lo, mid)
             r   == BincountWeightsMut(bins, w, len, mid + 1, hi)
         IN  [b \in 1 .. len |-> FAdd(l[b], r[b])]

RECURSIVE BincountWeights(_, _, _, _, _)
BincountWeights(bins, w, len, lo, hi) ==
    IF lo > hi THEN [b \in 1 .. len |-> F(0)]
    ELSE IF lo = hi
    THEN [b \in 1 .. len |-> IF b = bins[lo] + 1 THEN Float64(F(w[lo])) ELSE F(0)]
    ELSE LET mid == (lo + hi) \div 2
             l   == BincountWeights(bins, w, len, lo, mid)
             r   == BincountWeights(bins, w, len, mid + 1, hi)
         IN  [b \in 1 .. len |-> FAdd(l[b], r[b])]

\* np.bincount(bins) with len slots, over entries lo .. hi.
RECURSIVE BincountCounts(_, _, _, _)
BincountCounts(bins, len, lo, hi) ==
    IF lo > hi THEN [b \in 1 .. len |-> 0]
    ELSE IF lo = hi
    THEN [b \in 1 .. len |-> IF b = bins[lo] + 1 THEN 1 ELSE 0]
    ELSE LET mid == (lo + hi) \div 2
             l   == BincountCounts(bins, len, lo, mid)
             r   == BincountCounts(bins, len, mid + 1, hi)
         IN  [b \in 1 .. len |-> l[b] + r[b]]

\* np.divide(sums, counts, out=out, where=counts > 0).
\* Faulty variant: the where= mask left out.
DivideMut(sums, counts, out) ==
    [b \in 1 .. Len(out) |-> FDiv(sums[b], counts[b])]

Divide(sums, counts, out) ==
    [b \in 1 .. Len(out) |->
        IF counts[b] > 0 THEN FDiv(sums[b], counts[b]) ELSE out[b]]

\* Length of a bincount result: max(minlength, max(bins) + 1).
BincountLen(bins, minlength) ==
    LET top == CHOOSE t \in {bins[i] : i \in 1 .. Len(bins)} :
                   \A i \in 1 .. Len(bins) : bins[i] <= t
    IN  Max2(minlength, top + 1)

\* What evaluate_t(volume) returns or raises on the constructed basis.
EvaluateTResult(volume) ==
    IF volume.shape # <<N, N, N>> THEN Raise("AssertionError")
    ELSE IF nbins < 0 \/ \E i \in 1 .. Len(rbin) : rbin[i] < 0
    THEN Raise("ValueError")
    ELSE LET len    == BincountLen(rbin, nbins)
             sums   == BincountWeights(rbin, volume.data, len, 1, Len(rbin))
             counts == BincountCounts(rbin, len, 1, Len(rbin))
             zeros  == [b \in 1 .. nbins |-> F(0)]
         IN  IF len # nbins THEN Raise("ValueError")
             ELSE Ok([shape |-> <<nbins>>, data |-> Divide(sums, counts, zeros)])

\* ------------------------------------------------------------------------
\* keep_isotropic
\* ------------------------------------------------------------------------
KeepIsotropicResult(coeffs) == Ok(coeffs)

\* ------------------------------------------------------------------------
\* evaluate
\* ------------------------------------------------------------------------
\* coeffs[idx] along axis 0 (negative indices count from the end).
\* Faulty variant: the lookup shifted by one bin.
TakeMut(data, idx) == data[((idx + 1) % Len(data)) + 1]

Take(data, idx) == data[(IF idx < 0 THEN idx + Len(data) ELSE idx) + 1]

\* astype(np.float32) of one entry of axis 0.
Cast32(shape, e) ==
    IF Len(shape) = 1 THEN Float32(e) ELSE [j \in 1 .. Len(e) |-> Float32(e[j])]

\* What evaluate(coeffs) returns or raises on the constructed basis.
EvaluateResult(coeffs) ==
    IF coeffs.shape = <<>> THEN Raise("IndexError")
    ELSE IF coeffs.shape[1] # nbins THEN Raise("AssertionError")
    ELSE IF \E i \in 1 .. Len(rbin) :
                rbin[i] >= Len(coeffs.data) \/ rbin[i] < -Len(coeffs.data)
    THEN Raise("IndexError")
    ELSE Ok([shape |-> <<N, N, N>> \o Tail(coeffs.shape),
             data  |-> [v \in 1 .. Len(rbin) |->
                          Cast32(coeffs.shape, Take(coeffs.data, rbin[v]))]])

\* ------------------------------------------------------------------------
\* The caller's inputs
\* ------------------------------------------------------------------------
\* Voxel values: small integers, and 2^24 + 1, which single precision
\* cannot hold.
Values == {0, 1, -3, 2 ^ 24 + 1}

IsConstant(a, k) == \A i \in 1 .. Len(a.data) : a.data[i] = k

\* Flattened contents of n voxels: constant, a ramp, a single spike, stripes.
VolumeData(n) ==
    {[i \in 1 .. n |-> k] : k \in Values}
        \cup {[i \in 1 .. n |-> i],
              [i \in 1 .. n |-> IF i = 1 THEN 7 ELSE 0],
              [i \in 1 .. n |-> IF i % 2 = 0 THEN 2 ELSE -1]}

\* Arrays a caller passes to evaluate_t on a basis of side n.
VolumeInputs(n) ==
    {[shape |-> <<n, n, n>>, data |-> d] : d \in VolumeData(n * n * n)}
        \cup {[shape |-> s, data |-> [i \in 1 .. Prod(s) |-> 1]] :
                s \in {<<n, n>>, <<n, n, n + 1>>, <<n * n * n>>}}

\* Arrays a caller passes to evaluate / keep_isotropic on a basis of nb bins:
\* vectors of the right and of wrong lengths, a 0-d array, and arrays with a
\* second dimension.
CoeffInputs(nb) ==
    LET lens == {l \in {nb - 1, nb, nb + 1} : l >= 0}
    IN  {[shape |-> <<l>>, data |-> [i \in 1 .. l |-> F(10 * i)]] : l \in lens}
        \cup {[shape |-> <<l>>, data |-> [i \in 1 .. l |-> F(2 ^ 24 + 1)]] :
                l \in lens \cap {nb}}
        \cup {[shape |-> <<l, 2>>, data |-> [i \in 1 .. l |-> <<F(i), F(-i)>>]] :
                l \in lens \cap {nb, nb + 1}}
        \cup {[shape |-> <<>>, data |-> <<F(1)>>]}

\* ------------------------------------------------------------------------
\* State machine.  phase, N, nbins, rbin, warnings: the basis object and what
\* numpy reported while building it.  call: the last call made on it, with
\* its argument and outcome.  vol: when the argument of the last call is the
\* result a caller passed on from evaluate_t, the volume it started from.
\* ------------------------------------------------------------------------
Init ==
    /\ phase = "new"
    /\ N = 0
    /\ nbins = 0
    /\ rbin = <<>>
    /\ warnings = {}
    /\ vol = NoArray
    /\ call = [op |-> "none", arg |-> NoArray, res |-> NoResult]

\* __init__(n, nb): nb = <<>> is the default None, <<b>> an explicit count.
\* r.max() over an empty grid (n <= 0) raises and no object exists.
Construct(n, nb) ==
    /\ phase = "new"
    /\ N' = n
    /\ nbins' = IF nb = <<>> THEN n \div 2 + 1 ELSE nb[1]
    /\ IF n <= 0
       THEN /\ phase' = "failed"
            /\ UNCHANGED <<rbin, warnings>>
       ELSE /\ phase' = "ready"
            /\ rbin' \in PrecomputeRadiusBins(n, nbins')
            /\ warnings' = PrecomputeWarnings(n)
    /\ UNCHANGED <<vol, call>>

EvaluateT(volume) ==
    /\ phase = "ready"
    /\ LET res == EvaluateTResult(volume)
       IN  /\ call' = [op |-> "evaluate_t", arg |-> volume, res |-> res]
           /\ vol' = IF res.status = "ok" THEN volume ELSE NoArray
    /\ UNCHANGED <<phase, N, nbins, rbin, warnings>>

KeepIsotropic(coeffs, src) ==
    /\ phase = "ready"
    /\ call' = [op |-> "keep_isotropic", arg |-> coeffs,
                res |-> KeepIsotropicResult(coeffs)]
    /\ vol' = src
    /\ UNCHANGED <<phase, N, nbins, rbin, warnings>>

\* Faulty variant: the length check written as an assignment to nbins.
EvaluateMut(coeffs, src) ==
    /\ phase = "ready"
    /\ call' = [op |-> "evaluate", arg |-> coeffs, res |-> EvaluateResult(coeffs)]
    /\ vol' = src
    /\ nbins' = IF coeffs.shape = <<>> THEN nbins ELSE coeffs.shape[1]
    /\ UNCHANGED <<phase, N, rbin, warnings>>

Evaluate(coeffs, src) ==
    /\ phase = "ready"
    /\ call' = [op |-> "evaluate", arg |-> coeffs, res |-> EvaluateResult(coeffs)]
    /\ vol' = src
    /\ UNCHANGED <<phase, N, nbins, rbin, warnings>>

\* The last call returned coefficients computed from vol.
Chained ==
    /\ call.op \in {"evaluate_t", "keep_isotropic"}
    /\ call.res.status = "ok"
    /\ vol # NoArray

Next ==
    \/ \E n \in -1 .. MaxN, nb \in {<<>>} \cup {<<b>> : b \in -1 .. MaxBins} :
          Construct(n, nb)
    \/ \E volume \in VolumeInputs(N) : EvaluateT(volume)
    \/ \E coeffs \in CoeffInputs(nbins) : KeepIsotropic(coeffs, NoArray)
    \/ Chained /\ KeepIsotropic(call.res.value, vol)
    \/ \E coeffs \in CoeffInputs(nbins) : Evaluate(coeffs, NoArray)
    \/ Chained /\ Evaluate(call.res.value, vol)

Spec == Init /\ [][Next]_vars

\* ------------------------------------------------------------------------
\* Properties
\* ------------------------------------------------------------------------
Ready == phase = "ready"

\* Arguments the data model allows: positive N and nbins.
ArgsValid == N > 0 /\ nbins > 0

\* ... and that construction is not required to reject (rmax = 0 together
\* with more than one bin).
SpecValid == ArgsValid /\ ~(N = 1 /\ nbins > 1)

RECURSIVE SumSeq(_)
SumSeq(q) == IF q = <<>> THEN 0 ELSE q[1] + SumSeq(Tail(q))

\* The voxels (1-based flat positions) the grid assigns to bin b.
Members(b) == {v \in 1 .. Len(rbin) : rbin[v] = b}

\* Sum of d over the positions lo .. hi that lie in bin b.
RECURSIVE SumIn(_, _, _, _)
SumIn(d, b, lo, hi) ==
    IF lo > hi THEN 0
    ELSE IF lo = hi THEN (IF rbin[lo] = b THEN d[lo] ELSE 0)
    ELSE SumIn(d, b, lo, (lo + hi) \div 2) + SumIn(d, b, (lo + hi) \div 2 + 1, hi)

\* The voxels nearest the geometric centre, and the corners of the grid.
Central == {v \in 1 .. N * N * N :
              \A a \in 0 .. 2 : AxisIndex(N, v - 1, a) \in {(N - 1) \div 2, N \div 2}}

Corners == {v \in 1 .. N * N * N :
              \A a \in 0 .. 2 : AxisIndex(N, v - 1, a) \in {0, N - 1}}

ForwardOk == Ready /\ call.op = "evaluate_t" /\ call.res.status = "ok"

\* C1: on every basis built from N > 0 and nbins > 0 the grid has N^3
\* entries, each in 0 .. nbins-1, and the per-bin voxel counts sum to N^3.
C1_GridInRange ==
    (Ready /\ ArgsValid) =>
        /\ Len(rbin) = N * N * N
        /\ \A v \in 1 .. Len(rbin) : rbin[v] \in 0 .. nbins - 1
        /\ SumSeq(BincountCounts(rbin, nbins, 1, Len(rbin))) = N * N * N

C1_Witness ==
    /\ Ready /\ N = 3 /\ nbins = N \div 2 + 1
    /\ Members(0) # {} /\ Members(1) # {}

\* C2: evaluate_t on an (N,N,N) volume returns a vector of length nbins in
\* which every populated bin holds the mean (sum over count) of the voxels
\* of that bin.
C2_ForwardIsMean ==
    /\ (Ready /\ ArgsValid /\ call.op = "evaluate_t" /\ call.arg.shape = <<N, N, N>>)
          => call.res.status = "ok"
    /\ ForwardOk =>
          /\ call.res.value.shape = <<nbins>>
          /\ Len(call.res.value.data) = nbins
          /\ \A b \in 0 .. nbins - 1 :
                Members(b) # {} =>
                   call.res.value.data[b + 1] =
                      FDiv(F(SumIn(call.arg.data, b, 1, Len(rbin))),
                           Cardinality(Members(b)))

C2_Witness ==
    /\ ForwardOk
    /\ \E b \in 1 .. nbins : call.res.value.data[b].den > 1
    /\ \E b, c \in 1 .. nbins : call.res.value.data[b] # call.res.value.data[c]

\* C3: a bin without voxels gets coefficient exactly 0, whatever the
\* volume, and no coefficient is the nan of a division by a zero count.
C3_EmptyBinIsZero ==
    ForwardOk =>
        \A b \in 0 .. nbins - 1 :
            /\ ~IsNan(call.res.value.data[b + 1])
            /\ Members(b) = {} => call.res.value.data[b + 1] = F(0)

C3_Witness ==
    /\ ForwardOk
    /\ N = 4
    /\ \E b \in 0 .. nbins - 1 : Members(b) = {}
    /\ \A i \in 1 .. Len(call.arg.data) : call.arg.data[i] # 0

\* C4 as stated: on every valid basis the central voxels are in bin 0.
C4_CentralInBinZero ==
    (Ready /\ SpecValid) => \A v \in Central : rbin[v] = 0

\* C4 amended: for odd N the centre voxel is in bin 0; for even N the eight
\* central voxels lie at radius sqrt(3)/2 and are in the bin nearest to
\* (nbins-1)/(N-1), which is 0 only when 2(nbins-1) < N-1.
C4_CentralBin ==
    (Ready /\ SpecValid) =>
        /\ N % 2 = 1 => \A v \in Central : rbin[v] = 0
        /\ N % 2 = 0 =>
              /\ Cardinality(Central) = 8
              /\ \A v \in Central :
                    rbin[v] = (2 * (nbins - 1) + (N - 1)) \div (2 * (N - 1))
              /\ (\A v \in Central : rbin[v] = 0) <=> 2 * (nbins - 1) < N - 1
              /\ nbins = N \div 2 + 1 => \A v \in Central : rbin[v] = 1

C4_Witness ==
    /\ Ready /\ N = 4 /\ nbins = 3
    /\ \A v \in Central : rbin[v] = 1
    /\ \E v \in 1 .. Len(rbin) : rbin[v] = 2

\* C5: on every valid basis every corner voxel is in bin nbins-1, and the
\* corners are exactly the voxels at the maximum radius.
C5_CornerInLastBin ==
    (Ready /\ SpecValid) =>
        /\ \A v \in Corners : rbin[v] = nbins - 1
        /\ \A v \in 1 .. Len(rbin) :
              IF v \in Corners THEN R2(N, v - 1) = R2(N, 0)
              ELSE R2(N, v - 1) < R2(N, 0)

C5_Witness ==
    /\ Ready /\ N = 3 /\ nbins = 4
    /\ Cardinality(Corners) = 8
    /\ \A v \in Corners : rbin[v] = 3
    /\ \E v \in 1 .. Len(rbin) : rbin[v] = 0

\* C6: for a volume whose voxels all equal k, evaluate_t yields k at every
\* populated bin, and evaluate of that result is the (N,N,N) volume whose
\* voxels all hold k as a single-precision number (k itself when single
\* precision can hold it), empty bins notwithstanding.
C6_ConstantVolume ==
    \A k \in Values :
        /\ (ForwardOk /\ IsConstant(call.arg, k)) =>
              \A b \in 0 .. nbins - 1 :
                  Members(b) # {} => call.res.value.data[b + 1] = F(k)
        /\ (Ready /\ call.op = "evaluate" /\ vol # NoArray /\ IsConstant(vol, k)) =>
              /\ call.res.status = "ok"
              /\ call.res.value.shape = <<N, N, N>>
              /\ Len(call.res.value.data) = N * N * N
              /\ \A v \in 1 .. N * N * N : call.res.value.data[v] = Float32(F(k))
              /\ BitLen(Abs(k)) <= 24 =>
                    \A v \in 1 .. N * N * N : call.res.value.data[v] = F(k)

C6_Witness ==
    /\ Ready /\ call.op = "evaluate" /\ vol # NoArray /\ IsConstant(vol, -3)
    /\ \E b \in 0 .. nbins - 1 : Members(b) = {}
    /\ \E b \in 1 .. nbins : call.arg.data[b] = F(0)
    /\ \A v \in 1 .. N * N * N : call.res.value.data[v] = F(-3)

\* C7: evaluate_t rejects every argument whose shape is not (N,N,N) and
\* evaluate rejects every argument that is not a vector of length nbins.
C7_ShapeChecked ==
    Ready =>
        /\ (call.op = "evaluate_t" /\ call.arg.shape # <<N, N, N>>)
              => call.res.status # "ok"
        /\ (call.op = "evaluate" /\ call.arg.shape # <<nbins>>)
              => call.res.status # "ok"

\* C8: no basis built from a non-positive N or nbins, or from N = 1 with
\* more than one bin, becomes ready.
C8_ConstructionRejects == Ready => SpecValid

\* C9: for N = 1 with the default single bin, the grid is built without an
\* invalid (0/0) division.
C9_GuardedDivision == (Ready /\ N = 1 /\ nbins = 1) => warnings = {}

\* C10: once the basis is ready no call changes the grid, N or nbins, and
\* the grid is built only by construction.
C10_GridFrame ==
    [][(phase # "new") =>
          /\ rbin' = rbin /\ N' = N /\ nbins' = nbins
          /\ phase' = phase]_vars

C10_Witness ==
    /\ Ready /\ ArgsValid
    /\ call.op = "evaluate" /\ call.res.status = "AssertionError"
    /\ rbin \in PrecomputeRadiusBins(N, nbins)

====
